---- MODULE Spec2Model ----
(***************************************************************************)
(* The framed subprocess message harness of tests/__init__.py             *)
(* (start_edgelink_process, read_json_from_process, run_edgelink,         *)
(* run_edgelink_with_json_object) and the standalone reader of            *)
(* scripts/json-console-test.py, as state machines.                       *)
(*                                                                         *)
(* The child is a separate OS process: it writes characters to its        *)
(* stdout, closes it and exits at any moment.  The harness is one asyncio  *)
(* task: between two awaits it runs without interruption, so one action   *)
(* covers the code from one await to the next.  The event loop observes   *)
(* the child's exit only while the task is suspended in an await.         *)
(***************************************************************************)
EXTENDS Integers, Sequences, FiniteSets, TLC

\* ---------------------------------------------------------------- bounds
\* Most lines the child writes to its stdout.
MaxLines == 3
\* Largest requested message count.
MaxExpected == 2

\* ------------------------------------------------------------ characters
\* The record separator U+001E and the line feed, as the stream carries them.
RS == "RS"
LF == "LF"
\* The other characters of the stream are the digits of JSON numbers and "x",
\* a character that no JSON document contains.
Digits == {"1", "2"}

\* What the child writes on one line, before the line feed: a frame (payloads 1
\* and 12), a frame after text that is not part of it, a frame whose payload
\* is not JSON, a frame with an empty payload, and a line that holds no frame.
LineTexts ==
    { <<RS, "1">>, <<RS, "1", "2">>, <<"2", RS, "2">>, <<RS, "x">>, <<RS>>, <<"x">> }

\* What the child may leave after its last line feed when its stdout ends.
TailTexts == { <<RS, "1">>, <<"x">> }

\* timeout=8 of asyncio.wait_for
Timeout == 8

\* ------------------------------------------------------- string helpers
Contains(s, c) == \E i \in 1..Len(s) : s[i] = c

\* Index of the first c in s (s contains c).
FirstIndex(s, c) == CHOOSE i \in 1..Len(s) : s[i] = c /\ \A j \in 1..(i - 1) : s[j] # c

\* s.split(c, 1)[0] and s.split(c, 1)[1], for s containing c.
SplitHead(s, c) == SubSeq(s, 1, FirstIndex(s, c) - 1)
SplitTail(s, c) == SubSeq(s, FirstIndex(s, c) + 1, Len(s))

\* json.loads: succeeds on a JSON document; here the documents are the
\* non-empty digit strings (JSON numbers), anything else raises JSONDecodeError.
JsonValid(s) == Len(s) >= 1 /\ \A i \in 1..Len(s) : s[i] \in Digits

DigitValue(c) == IF c = "1" THEN 1 ELSE 2

\* The decoded value of a JSON number: its digits read in base ten.
RECURSIVE JsonLoads(_)
JsonLoads(s) ==
    IF Len(s) = 0 THEN 0
    ELSE 10 * JsonLoads(SubSeq(s, 1, Len(s) - 1)) + DigitValue(s[Len(s)])

\* ------------------------------------------------------------ decode loop
\* A test that would fire one message early.
CountReachedEarly(counter, n) == counter + 1 >= n

\* "if counter >= nexpected" of read_json_from_process.
CountReached(counter, n) == counter >= n

\* A collector that would put the newest message first.
YieldFirst(msgs, json_obj) == <<json_obj>> \o msgs

\* "yield json_obj" handing the message to "async for i in ...:
\* msgs.append(i)" of the entry point.
Yield(msgs, json_obj) == Append(msgs, json_obj)

\* A split that would keep the text before the separator in front of the rest.
KeepStart(buffer) == SplitHead(buffer, RS) \o SplitTail(buffer, RS)

\* "start, rest = buffer.split('\x1E', 1)": start is never used again.
DropStart(buffer) == SplitTail(buffer, RS)

\* A scan that would keep only the text after the separator.
KeepOnlyRest(buffer, rest) == rest

\* A scan that would empty the buffer when the frame is not complete yet.
DropPartial(buffer, rest) == <<>>

\* "else: break" when the text after the separator holds no line feed yet: the
\* buffer stays as it is, separator and text before it included.
KeepPartial(buffer, rest) == buffer

\* A scan that would leave the bad frame in the buffer.
BufferUntrimmed(buffer, buffer2) == buffer

\* "json_str, buffer = rest.split('\n', 1)" runs before json.loads: when
\* json.loads raises, the buffer already holds the text after the line feed.
BufferAtError(buffer, buffer2) == buffer2

\* The scan "while '\x1E' in buffer" of tests/__init__.py, run until it
\* leaves the loop: by break or by the end of the loop ("more"), by the count
\* being reached ("count", the generator is then at send_signal), or by
\* json.loads raising ("decode_error").  Each yield appends to the caller's
\* msgs (the facade's "async for" body) before the generator resumes.
RECURSIVE ScanLoop(_, _, _, _)
ScanLoop(buffer, counter, msgs, n) ==
    IF ~Contains(buffer, RS)
    THEN [buffer |-> buffer, counter |-> counter, msgs |-> msgs, outcome |-> "more"]
    ELSE LET rest == DropStart(buffer) IN
         IF ~Contains(rest, LF)
         THEN [buffer |-> KeepPartial(buffer, rest), counter |-> counter, msgs |-> msgs,
               outcome |-> "more"]
         ELSE LET json_str == SplitHead(rest, LF)
                  buffer2 == SplitTail(rest, LF)
              IN  IF ~JsonValid(json_str)
                  THEN [buffer |-> BufferAtError(buffer, buffer2), counter |-> counter,
                        msgs |-> msgs, outcome |-> "decode_error"]
                  ELSE IF CountReached(counter + 1, n)
                  THEN [buffer |-> buffer2, counter |-> counter + 1,
                        msgs |-> Yield(msgs, JsonLoads(json_str)), outcome |-> "count"]
                  ELSE ScanLoop(buffer2, counter + 1, Yield(msgs, JsonLoads(json_str)), n)

\* A reader that would keep one window running across its reads.
SameWindow(idle) == idle

\* "asyncio.wait_for(process.stdout.readline(), timeout=8)" is called anew on
\* every pass of "while True": each read starts a window of its own.
NewWindow(idle) == 0

\* x is an element of the sequence s.
Has(s, x) == \E i \in 1..Len(s) : s[i] = x

\* ------------------------------------------------------------- the launch
\* The values platform.system() returns on the systems the tests run on.
Platforms == {"Windows", "Linux", "Darwin"}

\* start_edgelink_process: the creation flags and the executable's name.
CreationFlags(system) == IF system = "Windows" THEN "CREATE_NEW_PROCESS_GROUP" ELSE "0"
ProgName(system) == IF system = "Windows" THEN "edgelinkd.exe" ELSE "edgelinkd"

\* A generator that would send the interrupt signal on every platform.
SignalAlwaysInterrupt(system) == "SIGINT"

\* read_json_from_process: the signal sent once the count is reached.
SignalKind(system) == IF system = "Windows" THEN "CTRL_BREAK_EVENT" ELSE "SIGINT"

\* Entry points that would pass the flow file and --stdin together.
ElArgsBoth(e) == <<"-v", "0", "-f", "flows_path", "--stdin">>

\* el_args of run_edgelink_with_json_object and of run_edgelink.
ElArgs(e) ==
    IF e = "stdin" THEN <<"-v", "0", "--stdin">> ELSE <<"-v", "0", "-f", "flows_path">>

\* The processes a signal sent with process.send_signal reaches: SIGINT goes to
\* the child's pid; CTRL_BREAK_EVENT goes to the process group whose id is the
\* child's pid, which is the child's own group when it was created with
\* CREATE_NEW_PROCESS_GROUP and otherwise the group it shares with the harness.
Receivers(flags, kind) ==
    IF kind = "CTRL_BREAK_EVENT" /\ flags # "CREATE_NEW_PROCESS_GROUP"
    THEN {"child", "harness"}
    ELSE {"child"}

\* No child yet.
NoProcess == [prog |-> "none", args |-> <<>>, flags |-> "none", env |-> {}, sig |-> "none"]

\* No command-line tool is running.
NoTool == [name |-> "none"]

\* No test around the invocation: the facade is called directly.
NoTest == [name |-> "none", phase |-> "call"]

\* ------------------------------------------------------------------ state
VARIABLES
    entry,       \* "file": run_edgelink, "stdin": run_edgelink_with_json_object
    nexpected,   \* the requested message count
    pc,          \* where the facade's task is
    err,         \* the exception the facade raised ("none" while none)
    buffer,      \* read_json_from_process's buffer
    counter,     \* read_json_from_process's counter
    msgs,        \* the facade's msgs list
    ops,         \* operations performed so far on the child, in order
    idle,        \* how long the current readline has been pending
    written,     \* everything the child wrote to its stdout so far
    rd,          \* how many characters of written readline has returned
    outClosed,   \* the child's stdout has reached end-of-stream
    childState,  \* "none", "running", "exited"
    procGone,    \* the loop saw the exit and every pipe close (transport._proc is None)
    process,     \* the child as launched: program, arguments, flags, environment, signal sent
    platform,    \* what platform.system() returns
    environ,     \* the names set in os.environ of the harness process
    test,        \* the test around the invocation and its phase
    stderrFill,  \* how much of the child's stderr pipe is filled
    tool         \* the state of a command-line tool of scripts/ (none in the harness)

\* The surroundings of an invocation: no step of the facade changes them.
hostVars == <<platform, environ, test, stderrFill, tool>>
harnessVars == <<entry, nexpected, pc, err, buffer, counter, msgs, ops, idle, process, hostVars>>
childVars == <<written, rd, outClosed, childState, procGone>>
vars == <<harnessVars, childVars>>

Entries == {"file", "stdin"}

Init ==
    /\ entry \in Entries
    /\ nexpected \in 0..MaxExpected
    /\ pc = "start"
    /\ err = "none"
    /\ buffer = <<>>
    /\ counter = 0
    /\ msgs = <<>>
    /\ ops = <<>>
    /\ idle = 0
    /\ written = <<>>
    /\ rd = 0
    /\ outClosed = FALSE
    /\ childState = "none"
    /\ procGone = FALSE
    /\ process = NoProcess
    /\ platform = "Linux"
    /\ environ = {}
    /\ test = NoTest
    /\ stderrFill = 0
    /\ tool = NoTool

\* ---------------------------------------------------------- the child side
\* What the child wrote and readline has not returned yet.
Unread == SubSeq(written, rd + 1, Len(written))

\* readline() can return: a whole line is there, or the stream is at its end.
LineReady == Contains(Unread, LF) \/ outClosed

\* What readline() returns: the text up to and including the first line feed,
\* at end-of-stream the rest of the text, b'' once nothing is left.
NextLine == IF Contains(Unread, LF) THEN SubSeq(Unread, 1, FirstIndex(Unread, LF)) ELSE Unread

\* The task is suspended in an await: the event loop runs its callbacks.
Suspended == pc \in {"read", "wait_sig", "wait_eof", "wait_kill"}
Finished == pc \in {"returned", "raised"}

\* The number of lines the child has written.
NumLines == Cardinality({i \in 1..Len(written) : written[i] = LF})

\* The child writes one line to its stdout.  readline() returns nothing of a
\* line before its line feed is there, so the line is written in one step.
ChildWrite ==
    /\ childState = "running" /\ ~outClosed /\ ~Finished
    /\ NumLines < MaxLines
    /\ \E t \in LineTexts : written' = written \o t \o <<LF>>
    /\ UNCHANGED <<harnessVars, rd, outClosed, childState, procGone>>

\* The child writes text with no line feed and its stdout ends there (it closed
\* the stream, or exits next): the only case in which readline() returns a
\* line that is not terminated.
ChildWriteLast ==
    /\ childState = "running" /\ ~outClosed /\ ~Finished
    /\ NumLines < MaxLines
    /\ \E t \in TailTexts : written' = written \o t
    /\ outClosed' = TRUE
    /\ UNCHANGED <<harnessVars, rd, childState, procGone>>

\* The child closes its stdout and keeps running.
ChildCloseStdout ==
    /\ childState = "running" /\ ~outClosed /\ ~Finished
    /\ outClosed' = TRUE
    /\ UNCHANGED <<harnessVars, written, rd, childState, procGone>>

\* The child exits: on its own, or in answer to the cancellation signal.
ChildExit ==
    /\ childState = "running" /\ ~Finished
    /\ childState' = "exited"
    /\ outClosed' = TRUE
    /\ UNCHANGED <<harnessVars, written, rd, procGone>>

\* asyncio's child watcher and pipe transports, run by the loop while the task
\* is suspended: the exit and the closed pipes are seen, the transport drops
\* its Popen object, and send_signal()/kill() raise ProcessLookupError from then on.
LoopReap ==
    /\ Suspended
    /\ childState = "exited" /\ ~procGone
    /\ procGone' = TRUE
    /\ UNCHANGED <<harnessVars, written, rd, outClosed, childState>>

\* ------------------------------------------------------------- the facade
\* A handler that would kill the child and raise at once, without the wait.
FacadeExceptNoWait(e, opsNow) ==
    /\ pc' = "raised"
    /\ err' = e
    /\ ops' = Append(opsNow, "kill")
    /\ childState' = "exited"
    /\ outClosed' = TRUE

\* "except Exception as e: process.kill(); await process.wait(); raise e" of
\* run_edgelink and run_edgelink_with_json_object, up to its await.  kill() on a
\* transport whose process is gone raises ProcessLookupError inside the handler
\* (asyncio's _check_proc), which ends the invocation with that error and
\* without the wait.  Otherwise the child is dead from here on: SIGKILL is not
\* handled, and killing a child that has exited changes nothing.
\* The handler of run_edgelink_with_json_object.
ExceptStdin(e, opsNow) ==
    IF procGone
    THEN /\ pc' = "raised"
         /\ err' = "lookup"
         /\ ops' = Append(opsNow, "kill_err")
         /\ UNCHANGED <<childState, outClosed>>
    ELSE /\ pc' = "wait_kill"
         /\ err' = e
         /\ ops' = Append(opsNow, "kill")
         /\ childState' = "exited"
         /\ outClosed' = TRUE

\* A handler of run_edgelink that would kill and raise without the wait.
ExceptFileNoWait(e, opsNow) ==
    IF procGone
    THEN /\ pc' = "raised"
         /\ err' = "lookup"
         /\ ops' = Append(opsNow, "kill_err")
         /\ UNCHANGED <<childState, outClosed>>
    ELSE /\ pc' = "raised"
         /\ err' = e
         /\ ops' = Append(opsNow, "kill")
         /\ childState' = "exited"
         /\ outClosed' = TRUE

\* The handler of run_edgelink.
ExceptFile(e, opsNow) ==
    IF procGone
    THEN /\ pc' = "raised"
         /\ err' = "lookup"
         /\ ops' = Append(opsNow, "kill_err")
         /\ UNCHANGED <<childState, outClosed>>
    ELSE /\ pc' = "wait_kill"
         /\ err' = e
         /\ ops' = Append(opsNow, "kill")
         /\ childState' = "exited"
         /\ outClosed' = TRUE

FacadeExcept(e, opsNow) ==
    IF entry = "stdin" THEN ExceptStdin(e, opsNow) ELSE ExceptFile(e, opsNow)

\* An entry point that would write the JSON text and leave stdin open.
StdinOpsNoClose(e) == IF e = "stdin" THEN <<"stdin_write">> ELSE <<>>

\* What the entry point does between the return of start_edgelink_process and
\* its first await: run_edgelink_with_json_object writes the JSON text to the
\* child's stdin and closes it, run_edgelink does nothing.
StdinOps(e) == IF e = "stdin" THEN <<"stdin_write", "stdin_close">> ELSE <<>>

\* The child create_subprocess_exec starts: the program and the flags of the
\* platform, the entry point's arguments, the environment of the harness.
Launched ==
    [prog |-> ProgName(platform), args |-> ElArgs(entry),
     flags |-> CreationFlags(platform), env |-> environ, sig |-> "none"]

\* start_edgelink_process succeeds, and the entry point runs up to the first
\* readline() of read_json_from_process.
Spawn ==
    /\ pc = "start"
    /\ childState' = "running"
    /\ ops' = <<"spawn">> \o StdinOps(entry)
    /\ process' = Launched
    /\ pc' = "read"
    /\ UNCHANGED <<hostVars, entry, nexpected, err, buffer, counter, msgs, idle>>
    /\ UNCHANGED <<written, rd, outClosed, procGone>>

\* A launch inside the facade's try: the failure would reach the handler.
SpawnFailInsideTry ==
    /\ pc = "start"
    /\ pc' = "raised"
    /\ err' = "launch"
    /\ ops' = <<"spawn_err", "kill_err">>
    /\ UNCHANGED <<hostVars, entry, nexpected, buffer, counter, msgs, idle, process, childVars>>

\* start_edgelink_process: the executable is missing or cannot be started; the
\* await is outside the facade's try, the error reaches the caller as it is.
SpawnFail ==
    /\ pc = "start"
    /\ pc' = "raised"
    /\ err' = "launch"
    /\ ops' = <<"spawn_err">>
    /\ UNCHANGED <<hostVars, entry, nexpected, buffer, counter, msgs, idle, process, childVars>>

\* run_edgelink_with_json_object: the child is started, and the write to its
\* stdin, or the close after it, raises; the facade's handler runs.
WriteStdinFail ==
    /\ pc = "start"
    /\ entry = "stdin"
    /\ \E done \in {<<"stdin_write_err">>, <<"stdin_write", "stdin_close_err">>} :
           FacadeExcept("stdin", <<"spawn">> \o done)
    /\ process' = Launched
    /\ UNCHANGED <<hostVars, entry, nexpected, buffer, counter, msgs, idle, written, rd, procGone>>

\* After the scan left its loop at "if counter >= nexpected": send_signal, then
\* the await of process.wait().  send_signal raises when the process is gone;
\* the error leaves the generator and reaches the facade's handler.
SendSignal(opsNow) ==
    IF procGone
    THEN FacadeExcept("lookup", Append(opsNow, "signal_err")) /\ UNCHANGED process
    ELSE /\ pc' = "wait_sig"
         /\ ops' = Append(opsNow, "signal")
         /\ process' = [process EXCEPT !.sig = SignalKind(platform)]
         /\ UNCHANGED <<err, childState, outClosed>>

\* A generator that would signal the child at end-of-stream too.
EndOfStreamSignals(opsNow) == SendSignal(opsNow)

\* "if not line: break": the loop ends and the generator's last statement, the
\* await of process.wait(), follows.
EndOfStream(opsNow) ==
    /\ pc' = "wait_eof"
    /\ ops' = opsNow
    /\ UNCHANGED <<err, childState, outClosed, process>>

\* A generator that would decode what is left in the buffer at end-of-stream.
FlushAtEof(out, buf) ==
    IF Contains(buf, RS) /\ JsonValid(SplitTail(buf, RS))
    THEN Append(out, JsonLoads(SplitTail(buf, RS)))
    ELSE out

\* "if not line: break": the buffer is not looked at again, the caller's list
\* stays as it is.
AtEof(out, buf) == out

\* One pass of "while True" of read_json_from_process, from the return of
\* readline() to the next await.
ReadLine ==
    /\ pc = "read"
    /\ LineReady
    /\ rd' = rd + Len(NextLine)
    /\ idle' = NewWindow(idle)
    /\ LET opsNow == Append(ops, "read") IN
       IF NextLine = <<>>
       THEN /\ EndOfStream(opsNow)
            /\ msgs' = AtEof(msgs, buffer)
            /\ UNCHANGED <<buffer, counter>>
       ELSE LET r == ScanLoop(buffer \o NextLine, counter, msgs, nexpected) IN
            /\ buffer' = r.buffer
            /\ counter' = r.counter
            /\ msgs' = r.msgs
            /\ IF r.outcome = "count" THEN SendSignal(opsNow)
               ELSE IF r.outcome = "decode_error"
               THEN FacadeExcept("decode", opsNow) /\ UNCHANGED process
               ELSE /\ pc' = "read"
                    /\ ops' = opsNow
                    /\ UNCHANGED <<err, childState, outClosed, process>>
    /\ UNCHANGED <<hostVars, entry, nexpected, written, procGone>>

\* readline() stays pending for Timeout units of time: wait_for gives up with
\* asyncio.TimeoutError, re-raised by the generator's "except
\* asyncio.TimeoutError" and caught by the facade's handler.
StallTimeout ==
    /\ pc = "read"
    /\ ~LineReady
    /\ idle' = Timeout
    /\ FacadeExcept("timeout", Append(ops, "read_timeout"))
    /\ UNCHANGED <<hostVars, entry, nexpected, buffer, counter, msgs, written, rd, procGone, process>>

\* A handler that would hand the collected messages back after the wait.
AfterWaitReturns(at) == "returned"

\* What follows the wait: in the handler "raise e" (lines 99 and 114), after
\* the signal or at end-of-stream the generator ends and "return msgs" follows.
AfterWait(at) == IF at = "wait_kill" THEN "raised" ELSE "returned"

\* A wait that would give up and go on while the child still runs.
ProcessWaitGivesUp ==
    /\ pc \in {"wait_sig", "wait_eof", "wait_kill"}
    /\ ops' = Append(ops, "wait")
    /\ pc' = IF pc = "wait_kill" THEN "raised" ELSE "returned"
    /\ UNCHANGED <<hostVars, entry, nexpected, err, buffer, counter, msgs, idle, process, childVars>>

\* "await process.wait()" returns: after the signal or at end-of-stream the
\* generator ends and the facade returns msgs; in the handler "raise e" follows.
ProcessWait ==
    /\ pc \in {"wait_sig", "wait_eof", "wait_kill"}
    /\ childState = "exited"
    /\ ops' = Append(ops, "wait")
    /\ pc' = AfterWait(pc)
    /\ UNCHANGED <<hostVars, entry, nexpected, err, buffer, counter, msgs, idle, process, childVars>>

\* The awaiting task is cancelled: CancelledError is raised at the await.  It
\* is a BaseException: neither "except asyncio.TimeoutError" nor the facade's
\* "except Exception" catches it.
Cancel ==
    /\ Suspended
    /\ pc' = "raised"
    /\ err' = "cancelled"
    /\ UNCHANGED <<hostVars, entry, nexpected, buffer, counter, msgs, ops, idle, process, childVars>>

Next ==
    \/ Spawn
    \/ SpawnFail
    \/ WriteStdinFail
    \/ ReadLine
    \/ StallTimeout
    \/ ProcessWait
    \/ Cancel
    \/ ChildWrite
    \/ ChildWriteLast
    \/ ChildCloseStdout
    \/ ChildExit
    \/ LoopReap

Spec == Init /\ [][Next]_vars

\* ------------------------------------------------- the launch, by platform
\* The same harness on each platform, asked for one message.
InitLaunch ==
    /\ entry \in Entries
    /\ nexpected = 1
    /\ pc = "start"
    /\ err = "none"
    /\ buffer = <<>>
    /\ counter = 0
    /\ msgs = <<>>
    /\ ops = <<>>
    /\ idle = 0
    /\ written = <<>>
    /\ rd = 0
    /\ outClosed = FALSE
    /\ childState = "none"
    /\ procGone = FALSE
    /\ process = NoProcess
    /\ platform \in Platforms
    /\ environ = {}
    /\ test = NoTest
    /\ stderrFill = 0
    /\ tool = NoTool

SpecLaunch == InitLaunch /\ [][Next]_vars

\* ------------------------------------------------------ the harness in time
\* The same harness with the clock made explicit: time passes in units while
\* readline() is pending, and wait_for gives up when the pending read has
\* lasted Timeout units.  The child writes a frame or a line without a frame,
\* at any moment, or exits.

\* Most units of time that pass in one invocation.
MaxTicks == 10

NumTicks == Cardinality({i \in 1..Len(ops) : ops[i] = "tick"})

TimedLineTexts == { <<RS, "1">>, <<"x">> }

InitTimed == Init /\ entry = "file" /\ nexpected >= 1

\* One unit of time passes while readline() is pending.
Tick ==
    /\ pc = "read"
    /\ ~LineReady
    /\ idle < Timeout
    /\ NumTicks < MaxTicks
    /\ idle' = idle + 1
    /\ ops' = Append(ops, "tick")
    /\ UNCHANGED <<hostVars, entry, nexpected, pc, err, buffer, counter, msgs, process, childVars>>

\* wait_for's timer fires: the pending read has lasted Timeout units.
TimedStall == idle = Timeout /\ StallTimeout

TimedChildWrite ==
    /\ childState = "running" /\ ~outClosed /\ ~Finished
    /\ NumLines < MaxLines
    /\ \E t \in TimedLineTexts : written' = written \o t \o <<LF>>
    /\ UNCHANGED <<harnessVars, rd, outClosed, childState, procGone>>

NextTimed ==
    \/ Spawn
    \/ ReadLine
    \/ Tick
    \/ TimedStall
    \/ ProcessWait
    \/ TimedChildWrite
    \/ ChildExit

SpecTimed == InitTimed /\ [][NextTimed]_vars

\* ------------------------------------------------- the decode loop alone
\* The decode step of read_json_from_process, "buffer += chunk" and the scan,
\* fed a text in consecutive chunks of any lengths.  The text is a sequence of
\* items: frames of JSON numbers, a frame whose payload is not JSON, text that
\* belongs to no frame.

\* Most digits of a JSON number, most items of a text.
MaxDigits == 2
MaxItems == 2

\* The JSON values: the numbers written with the digits 1 and 2.
RECURSIVE JsonValues(_)
JsonValues(n) ==
    IF n = 0 THEN {}
    ELSE {1, 2} \cup JsonValues(n - 1) \cup {10 * v + d : v \in JsonValues(n - 1), d \in {1, 2}}

\* json.dumps of a number: its decimal digits.
RECURSIVE JsonDumps(_)
JsonDumps(v) ==
    IF v < 10 THEN <<IF v = 1 THEN "1" ELSE "2">>
    ELSE JsonDumps(v \div 10) \o <<IF v % 10 = 1 THEN "1" ELSE "2">>

\* The framed text of a JSON text: record separator, the text, line feed.
Framed(t) == <<RS>> \o t \o <<LF>>

\* The items of a longer text: two frames of JSON numbers, a frame whose
\* payload is not JSON, text outside any frame.
DecodeItems == {Framed(<<"1">>), Framed(<<"1", "2">>), Framed(<<"x">>), <<"x">>}

RECURSIVE ItemTexts(_)
ItemTexts(n) ==
    IF n = 0 THEN {<<>>}
    ELSE ItemTexts(n - 1) \cup {t \o i : t \in ItemTexts(n - 1), i \in DecodeItems}

\* The texts fed: the frame of every JSON value, and the texts of a few items.
DecodeTexts ==
    {Framed(JsonDumps(v)) : v \in JsonValues(MaxDigits)} \cup (ItemTexts(MaxItems) \ {<<>>})

\* "harness": the loop of tests/__init__.py, "script": the loop of
\* scripts/json-console-test.py.
DecodeEntries == {"harness", "script"}

InitDecode ==
    /\ entry \in DecodeEntries
    /\ nexpected \in 1..MaxExpected
    /\ pc = "feed"
    /\ err = "none"
    /\ buffer = <<>>
    /\ counter = 0
    /\ msgs = <<>>
    /\ ops = <<>>
    /\ idle = 0
    /\ written \in DecodeTexts
    /\ rd = 0
    /\ outClosed = FALSE
    /\ childState = "none"
    /\ procGone = FALSE
    /\ process = NoProcess
    /\ platform = "Linux"
    /\ environ = {}
    /\ test = NoTest
    /\ stderrFill = 0
    /\ tool = NoTool

\* The scan of scripts/json-console-test.py: the same splitting, but a payload
\* that json.loads rejects is only printed and the while loop goes on with the
\* text after it.
RECURSIVE ScriptScanLoop(_, _, _, _)
ScriptScanLoop(buf, json_count, out, num_json) ==
    IF ~Contains(buf, RS)
    THEN [buffer |-> buf, counter |-> json_count, msgs |-> out, outcome |-> "more"]
    ELSE LET rest == SplitTail(buf, RS) IN
         IF ~Contains(rest, LF)
         THEN [buffer |-> buf, counter |-> json_count, msgs |-> out, outcome |-> "more"]
         ELSE LET json_str == SplitHead(rest, LF)
                  buffer2 == SplitTail(rest, LF)
              IN  IF ~JsonValid(json_str)
                  THEN ScriptScanLoop(buffer2, json_count, out, num_json)
                  ELSE IF json_count + 1 >= num_json
                  THEN [buffer |-> buffer2, counter |-> json_count + 1,
                        msgs |-> Append(out, JsonLoads(json_str)), outcome |-> "count"]
                  ELSE ScriptScanLoop(buffer2, json_count + 1,
                                      Append(out, JsonLoads(json_str)), num_json)

\* One decode step of the harness on the next chunk of the text.  The scan
\* leaves its loop to wait for more text, or ends the generator: the count is
\* reached, or json.loads raised.
Feed ==
    /\ pc = "feed"
    /\ entry = "harness"
    /\ \E k \in 1..(Len(written) - rd) :
          LET chunk == SubSeq(written, rd + 1, rd + k)
              r == ScanLoop(buffer \o chunk, counter, msgs, nexpected)
          IN  /\ rd' = rd + k
              /\ buffer' = r.buffer
              /\ counter' = r.counter
              /\ msgs' = r.msgs
              /\ pc' = IF r.outcome = "more" THEN "feed" ELSE r.outcome
              /\ ops' = Append(ops, "chunk")
    /\ UNCHANGED <<hostVars, entry, nexpected, err, idle, written, outClosed, childState, procGone, process>>

\* One decode step of the script on the next chunk of the text.
ScriptFeed ==
    /\ pc = "feed"
    /\ entry = "script"
    /\ \E k \in 1..(Len(written) - rd) :
          LET chunk == SubSeq(written, rd + 1, rd + k)
              r == ScriptScanLoop(buffer \o chunk, counter, msgs, nexpected)
          IN  /\ rd' = rd + k
              /\ buffer' = r.buffer
              /\ counter' = r.counter
              /\ msgs' = r.msgs
              /\ pc' = IF r.outcome = "more" THEN "feed" ELSE r.outcome
              /\ ops' = Append(ops, "chunk")
    /\ UNCHANGED <<hostVars, entry, nexpected, err, idle, written, outClosed, childState, procGone, process>>

NextDecode == Feed \/ ScriptFeed

SpecDecode == InitDecode /\ [][NextDecode]_vars

\* ------------------------------------------------- the harness and its pipes
\* The same harness with the pipes' capacity made explicit.  The child's stdout
\* and stderr are pipes (lines 32-33); what the child writes stays in the pipe
\* and in the loop's buffer, both bounded, until the harness takes it with
\* readline().  Nothing ever reads stderr.  A child that writes to a full pipe
\* is blocked in the write until there is room.

\* How many writes a pipe holds before the next write blocks.
PipeCap == 2

InitPipes == Init /\ entry = "file" /\ nexpected = 1

\* The lines in the stdout pipe that readline() has not returned.
PendingLines == Cardinality({i \in (rd + 1)..Len(written) : written[i] = LF})

\* The child writes a line to its stdout: there is room in the pipe.
PipedChildWrite ==
    /\ childState = "running" /\ ~outClosed /\ ~Finished
    /\ NumLines < MaxLines
    /\ PendingLines < PipeCap
    /\ \E t \in TimedLineTexts : written' = written \o t \o <<LF>>
    /\ UNCHANGED <<harnessVars, rd, outClosed, childState, procGone>>

\* The child writes to its stdout and the pipe is full: the write blocks.
ChildBlockStdout ==
    /\ childState = "running" /\ ~outClosed /\ ~Finished
    /\ PendingLines >= PipeCap
    /\ childState' = "blocked_out"
    /\ UNCHANGED <<harnessVars, written, rd, outClosed, procGone>>

\* readline() made room in the stdout pipe: the blocked write goes through.
ChildResumeStdout ==
    /\ childState = "blocked_out" /\ ~Finished
    /\ PendingLines < PipeCap
    /\ NumLines < MaxLines
    /\ \E t \in TimedLineTexts : written' = written \o t \o <<LF>>
    /\ childState' = "running"
    /\ UNCHANGED <<harnessVars, rd, outClosed, procGone>>

\* The child writes to its stderr: there is room in the pipe.
ChildWriteStderr ==
    /\ childState = "running" /\ ~Finished
    /\ stderrFill < PipeCap
    /\ stderrFill' = stderrFill + 1
    /\ UNCHANGED <<entry, nexpected, pc, err, buffer, counter, msgs, ops, idle, process,
                   platform, environ, test, tool, childVars>>

\* The child writes to its stderr and the pipe is full: the write blocks, and
\* stays blocked, since the harness has no read of process.stderr.
ChildBlockStderr ==
    /\ childState = "running" /\ ~Finished
    /\ stderrFill >= PipeCap
    /\ childState' = "blocked_err"
    /\ UNCHANGED <<harnessVars, written, rd, outClosed, procGone>>

\* The cancellation signal ends a child that is blocked in a write, when the
\* child does not finish its writes before it shuts down.
ChildInterrupted ==
    /\ childState \in {"blocked_out", "blocked_err"} /\ ~Finished
    /\ Has(ops, "signal")
    /\ childState' = "exited"
    /\ outClosed' = TRUE
    /\ UNCHANGED <<harnessVars, written, rd, procGone>>

NextPipes ==
    \/ Spawn
    \/ ReadLine
    \/ StallTimeout
    \/ ProcessWait
    \/ PipedChildWrite
    \/ ChildBlockStdout
    \/ ChildResumeStdout
    \/ ChildWriteStderr
    \/ ChildBlockStderr
    \/ ChildInterrupted
    \/ ChildCloseStdout
    \/ ChildExit
    \/ LoopReap

SpecPipes == InitPipes /\ [][NextPipes]_vars

\* ------------------------------------- tests that set an environment variable
\* The tests that put a name into os.environ around one invocation:
\* test_0002 of test_inject_node.py sets and deletes NR_TEST in its body,
\* TestEnvVar of test_function_node.py and TestSetEnvVar of test_change_node.py
\* set and delete theirs in setup_method and teardown_method.
EnvTests == {"test_0002", "TestEnvVar", "TestSetEnvVar"}

EnvVarOf(t) ==
    IF t = "test_0002" THEN "NR_TEST"
    ELSE IF t = "TestEnvVar" THEN "_TEST_FOO_"
    ELSE "NR_TEST_A"

\* The test deletes the name in teardown_method, which pytest runs whether the
\* test body returned or raised.
HasTeardown(t) == t \in {"TestEnvVar", "TestSetEnvVar"}

InitEnv ==
    /\ entry = "stdin"
    /\ nexpected = 1
    /\ pc = "start"
    /\ err = "none"
    /\ buffer = <<>>
    /\ counter = 0
    /\ msgs = <<>>
    /\ ops = <<>>
    /\ idle = 0
    /\ written = <<>>
    /\ rd = 0
    /\ outClosed = FALSE
    /\ childState = "none"
    /\ procGone = FALSE
    /\ process = NoProcess
    /\ platform = "Linux"
    /\ environ = {}
    /\ test \in {[name |-> t, phase |-> "setup"] : t \in EnvTests}
    /\ stderrFill = 0
    /\ tool = NoTool

\* setup_method, or the assignment in the body of test_0002 before the call.
TestSetup ==
    /\ test.phase = "setup"
    /\ environ' = environ \cup {EnvVarOf(test.name)}
    /\ test' = [test EXCEPT !.phase = "call"]
    /\ UNCHANGED <<entry, nexpected, pc, err, buffer, counter, msgs, ops, idle, process,
                   platform, stderrFill, tool, childVars>>

\* The test awaits the invocation (the flow goes to the child over stdin, one
\* message is expected).
TestCall == test.phase = "call" /\ Next

\* The invocation is over.  With teardown_method the name is deleted in either
\* case.  In test_0002 "del os.environ[...]" is the statement after the await:
\* it runs when the invocation returned, and is skipped when it raised.
TestEnd ==
    /\ test.phase = "call"
    /\ Finished
    /\ environ' = IF HasTeardown(test.name) \/ pc = "returned"
                  THEN environ \ {EnvVarOf(test.name)}
                  ELSE environ
    /\ test' = [test EXCEPT !.phase = "ended"]
    /\ UNCHANGED <<entry, nexpected, pc, err, buffer, counter, msgs, ops, idle, process,
                   platform, stderrFill, tool, childVars>>

NextEnv == TestSetup \/ TestCall \/ TestEnd

SpecEnv == InitEnv /\ [][NextEnv]_vars

\* ------------------------------------------- two invocations on one loop
\* Two calls of run_edgelink whose tasks run on the same event loop: between
\* two awaits one task runs alone, and at every await the loop may run the other
\* task, either child, or its own callbacks.  Every variable of the harness and
\* of the child is here a function of the invocation (of the child it spawned);
\* ops[c] records the operations performed on child c, each with the invocation
\* that performed it.

Invocations == {1, 2}

\* Most lines one child writes here.
MaxPairLines == 2

\* Child c writes frames of the number c, and lines that hold no frame.
PairLineTexts(c) == { <<RS, IF c = 1 THEN "1" ELSE "2">>, <<"x">> }

\* An invocation that would use the process of the first invocation.
FirstProcess(i) == 1

\* The child the local variable "process" of invocation i refers to: the one
\* returned by its own call of start_edgelink_process.
ProcessOf(i) == i

InitPair ==
    /\ entry = "file"
    /\ nexpected = [i \in Invocations |-> 1]
    /\ pc = [i \in Invocations |-> "start"]
    /\ err = [i \in Invocations |-> "none"]
    /\ buffer = [i \in Invocations |-> <<>>]
    /\ counter = [i \in Invocations |-> 0]
    /\ msgs = [i \in Invocations |-> <<>>]
    /\ ops = [c \in Invocations |-> <<>>]
    /\ idle = [i \in Invocations |-> 0]
    /\ written = [c \in Invocations |-> <<>>]
    /\ rd = [c \in Invocations |-> 0]
    /\ outClosed = [c \in Invocations |-> FALSE]
    /\ childState = [c \in Invocations |-> "none"]
    /\ procGone = [c \in Invocations |-> FALSE]
    /\ process = [c \in Invocations |-> NoProcess]
    /\ platform = "Linux"
    /\ environ = {}
    /\ test = NoTest
    /\ stderrFill = 0
    /\ tool = NoTool

UnreadOf(c) == SubSeq(written[c], rd[c] + 1, Len(written[c]))
LineReadyOf(c) == Contains(UnreadOf(c), LF) \/ outClosed[c]
NextLineOf(c) ==
    IF Contains(UnreadOf(c), LF)
    THEN SubSeq(UnreadOf(c), 1, FirstIndex(UnreadOf(c), LF))
    ELSE UnreadOf(c)
FinishedOf(i) == pc[i] \in {"returned", "raised"}
NumLinesOf(c) == Cardinality({k \in 1..Len(written[c]) : written[c][k] = LF})

\* Invocation i performs the operations done, in order, on child c.
Did(i, c, done) ==
    ops' = [ops EXCEPT ![c] = @ \o [k \in 1..Len(done) |-> [by |-> i, op |-> done[k]]]]

PairChildWrite(c) ==
    /\ childState[c] = "running" /\ ~outClosed[c] /\ ~FinishedOf(c)
    /\ NumLinesOf(c) < MaxPairLines
    /\ \E t \in PairLineTexts(c) : written' = [written EXCEPT ![c] = @ \o t \o <<LF>>]
    /\ UNCHANGED <<harnessVars, rd, outClosed, childState, procGone>>

PairChildExit(c) ==
    /\ childState[c] = "running" /\ ~FinishedOf(c)
    /\ childState' = [childState EXCEPT ![c] = "exited"]
    /\ outClosed' = [outClosed EXCEPT ![c] = TRUE]
    /\ UNCHANGED <<harnessVars, written, rd, procGone>>

PairLoopReap(c) ==
    /\ \E i \in Invocations : pc[i] \in {"read", "wait_sig", "wait_eof", "wait_kill"}
    /\ childState[c] = "exited" /\ ~procGone[c]
    /\ procGone' = [procGone EXCEPT ![c] = TRUE]
    /\ UNCHANGED <<harnessVars, written, rd, outClosed, childState>>

\* start_edgelink_process succeeds in invocation i: its child is child i.
PairSpawn(i) ==
    /\ pc[i] = "start"
    /\ childState' = [childState EXCEPT ![i] = "running"]
    /\ process' = [process EXCEPT ![i] = Launched]
    /\ Did(i, i, <<"spawn">>)
    /\ pc' = [pc EXCEPT ![i] = "read"]
    /\ UNCHANGED <<hostVars, entry, nexpected, err, buffer, counter, msgs, idle>>
    /\ UNCHANGED <<written, rd, outClosed, procGone>>

\* The handler of run_edgelink in invocation i, on its process c.
PairExcept(i, c, e, done) ==
    IF procGone[c]
    THEN /\ pc' = [pc EXCEPT ![i] = "raised"]
         /\ err' = [err EXCEPT ![i] = "lookup"]
         /\ Did(i, c, Append(done, "kill_err"))
         /\ UNCHANGED <<childState, outClosed>>
    ELSE /\ pc' = [pc EXCEPT ![i] = "wait_kill"]
         /\ err' = [err EXCEPT ![i] = e]
         /\ Did(i, c, Append(done, "kill"))
         /\ childState' = [childState EXCEPT ![c] = "exited"]
         /\ outClosed' = [outClosed EXCEPT ![c] = TRUE]

\* One pass of "while True" of read_json_from_process in invocation i.
PairReadLine(i) ==
    LET c == ProcessOf(i) IN
    /\ pc[i] = "read"
    /\ LineReadyOf(c)
    /\ rd' = [rd EXCEPT ![c] = @ + Len(NextLineOf(c))]
    /\ IF NextLineOf(c) = <<>>
       THEN /\ pc' = [pc EXCEPT ![i] = "wait_eof"]
            /\ Did(i, c, <<"read">>)
            /\ UNCHANGED <<buffer, counter, msgs, err, childState, outClosed, process>>
       ELSE LET r == ScanLoop(buffer[i] \o NextLineOf(c), counter[i], msgs[i], nexpected[i]) IN
            /\ buffer' = [buffer EXCEPT ![i] = r.buffer]
            /\ counter' = [counter EXCEPT ![i] = r.counter]
            /\ msgs' = [msgs EXCEPT ![i] = r.msgs]
            /\ IF r.outcome = "count"
               THEN IF procGone[c]
                    THEN PairExcept(i, c, "lookup", <<"read", "signal_err">>) /\ UNCHANGED process
                    ELSE /\ pc' = [pc EXCEPT ![i] = "wait_sig"]
                         /\ Did(i, c, <<"read", "signal">>)
                         /\ process' = [process EXCEPT ![c].sig = SignalKind(platform)]
                         /\ UNCHANGED <<err, childState, outClosed>>
               ELSE IF r.outcome = "decode_error"
               THEN PairExcept(i, c, "decode", <<"read">>) /\ UNCHANGED process
               ELSE /\ Did(i, c, <<"read">>)
                    /\ UNCHANGED <<pc, err, childState, outClosed, process>>
    /\ UNCHANGED <<hostVars, entry, nexpected, idle, written, procGone>>

\* The readline of invocation i stays pending for Timeout units of time.
PairStallTimeout(i) ==
    LET c == ProcessOf(i) IN
    /\ pc[i] = "read"
    /\ ~LineReadyOf(c)
    /\ idle' = [idle EXCEPT ![i] = Timeout]
    /\ PairExcept(i, c, "timeout", <<"read_timeout">>)
    /\ UNCHANGED <<hostVars, entry, nexpected, buffer, counter, msgs, written, rd, procGone, process>>

\* "await process.wait()" of invocation i returns.
PairProcessWait(i) ==
    LET c == ProcessOf(i) IN
    /\ pc[i] \in {"wait_sig", "wait_eof", "wait_kill"}
    /\ childState[c] = "exited"
    /\ Did(i, c, <<"wait">>)
    /\ pc' = [pc EXCEPT ![i] = AfterWait(pc[i])]
    /\ UNCHANGED <<hostVars, entry, nexpected, err, buffer, counter, msgs, idle, process, childVars>>

NextPair ==
    \E i \in Invocations :
        \/ PairSpawn(i)
        \/ PairReadLine(i)
        \/ PairStallTimeout(i)
        \/ PairProcessWait(i)
        \/ PairChildWrite(i)
        \/ PairChildExit(i)
        \/ PairLoopReap(i)

SpecPair == InitPair /\ [][NextPair]_vars

\* ------------------------------------------------ run_with_single_node_ntimes
\* The helper that wraps one node between an inject node and a console-json
\* node and hands the flow to run_edgelink_with_json_object.  Python values
\* carry their type; a dict is a function of its keys; the dicts that the code
\* changes in place live in a heap of objects, addressed by reference.
PyStr(s) == [kind |-> "str", text |-> s]
PyTrue == [kind |-> "bool", text |-> "True"]
PyFalse == [kind |-> "bool", text |-> "False"]
PyNone == [kind |-> "NoneType", text |-> "None"]

\* Python's truth value of an object.
Truthy(v) == v \notin {PyFalse, PyNone, PyStr("")}

\* "a and b" and "a or b": the operand that decided, not a boolean.
PyAnd(a, b) == IF Truthy(a) THEN b ELSE a
PyOr(a, b) == IF Truthy(a) THEN a ELSE b

\* d[k] = v on a dict, and the same on the object a reference names.
DictSet(d, k, v) == [x \in DOMAIN d \cup {k} |-> IF x = k THEN v ELSE d[x]]
HeapSet(h, ref, d) == [r \in DOMAIN h \cup {ref} |-> IF r = ref THEN d ELSE h[r]]

\* A helper that would work on the caller's dict itself.
NoCopy(ref) == ref

\* copy.deepcopy(node_json): a new object, named by the local user_node.
DeepCopy(ref) == "user_node"

\* The nodes the tests pass: a function node without wires, and one with two
\* outputs wired to the console node.
NodeArgs ==
    { [type |-> "function", func |-> "return msg;"],
      [type |-> "function", func |-> "return [msg, msg2];", wires |-> << <<"3">>, <<"3">> >>] }

\* payload and topic as the tests pass them, and as the defaults leave them.
PayloadArgs == { [payload |-> PyStr("foo"), topic |-> PyStr("bar")],
                 [payload |-> PyNone, topic |-> PyNone] }

InitNode ==
    /\ entry = "stdin"
    /\ nexpected = 1
    /\ pc = "start"
    /\ err = "none"
    /\ buffer = <<>>
    /\ counter = 0
    /\ msgs = <<>>
    /\ ops = <<>>
    /\ idle = 0
    /\ written = <<>>
    /\ rd = 0
    /\ outClosed = FALSE
    /\ childState = "none"
    /\ procGone = FALSE
    /\ process = NoProcess
    /\ platform = "Linux"
    /\ environ = {}
    /\ stderrFill = 0
    /\ tool = NoTool
    /\ \E once \in {PyTrue, PyFalse} : \E node \in NodeArgs : \E a \in PayloadArgs :
          test = [name |-> "single_node", phase |-> "setup", once |-> once,
                  payload |-> a.payload, payload_type |-> "str", topic |-> a.topic,
                  node |-> node, heap |-> [node_json |-> node], flow |-> <<>>]

\* The inject node of the helper (lines 119-136).
InjectNode(once, payload, payload_type, topic) ==
    LET props == (IF payload # PyNone THEN <<"payload">> ELSE <<>>)
                 \o (IF topic # PyNone THEN <<"topic">> ELSE <<>>)
        base == [id |-> "1", type |-> "inject", z |-> "0", name |-> "", props |-> props,
                 repeat |-> PyOr(PyAnd(once, PyStr("")), PyStr("0")),
                 crontab |-> "", once |-> once, onceDelay |-> 0, topic |-> topic,
                 wires |-> << <<"2">> >>]
    IN  IF payload # PyNone
        THEN DictSet(DictSet(base, "payload", payload.text), "payloadType", payload_type)
        ELSE base

\* The body of run_with_single_node_ntimes up to its await (lines 119-144): it
\* has no await of its own, so it runs in one step.
NodeBuild ==
    /\ test.name = "single_node" /\ test.phase = "setup"
    /\ LET u == DeepCopy("node_json")
           h0 == HeapSet(test.heap, u, test.heap["node_json"])
           h1 == HeapSet(h0, u, DictSet(h0[u], "id", "2"))
           h2 == HeapSet(h1, u, DictSet(h1[u], "z", "0"))
           h3 == IF "wires" \notin DOMAIN h2["node_json"]
                 THEN HeapSet(h2, u, DictSet(h2[u], "wires", << <<"3">> >>))
                 ELSE h2
           inject == InjectNode(test.once, test.payload, test.payload_type, test.topic)
           console_node == [id |-> "3", type |-> "console-json", z |-> "0"]
       IN  test' = [test EXCEPT !.phase = "call", !.heap = h3,
                                !.flow = <<[id |-> "0", type |-> "tab"], inject, h3[u],
                                           console_node>>]
    /\ UNCHANGED <<entry, nexpected, pc, err, buffer, counter, msgs, ops, idle, process,
                   platform, environ, stderrFill, tool, childVars>>

\* "return await run_edgelink_with_json_object(final_json, nexpected)".
NextNode == NodeBuild \/ TestCall

SpecNode == InitNode /\ [][NextNode]_vars

\* --------------------------------------------------- the standalone script
\* scripts/json-console-test.py: its read_json_from_process launches the child
\* itself, with no flow and no stdin pipe, and run_edgelink_and_collect_msgs
\* collects what it yields.  nexpected is here the argument num_msgs of
\* run_edgelink_and_collect_msgs; the generator is called with num_json=2
\* whatever num_msgs is.
NumJson == 2

InitScript ==
    /\ entry = "script"
    /\ nexpected \in 1..MaxExpected
    /\ pc = "start"
    /\ err = "none"
    /\ buffer = <<>>
    /\ counter = 0
    /\ msgs = <<>>
    /\ ops = <<>>
    /\ idle = 0
    /\ written = <<>>
    /\ rd = 0
    /\ outClosed = FALSE
    /\ childState = "none"
    /\ procGone = FALSE
    /\ process = NoProcess
    /\ platform \in Platforms
    /\ environ = {}
    /\ test = NoTest
    /\ stderrFill = 0
    /\ tool = NoTool

\* The systems the script accepts.
ScriptPlatforms == {"Windows", "Linux"}

\* "else: raise OSError" on any other system: nothing is launched.
ScriptUnsupported ==
    /\ pc = "start"
    /\ platform \notin ScriptPlatforms
    /\ pc' = "raised"
    /\ err' = "oserror"
    /\ UNCHANGED <<hostVars, entry, nexpected, buffer, counter, msgs, ops, idle, process, childVars>>

\* create_subprocess_exec succeeds; the generator runs up to its first readline().
ScriptSpawn ==
    /\ pc = "start"
    /\ platform \in ScriptPlatforms
    /\ childState' = "running"
    /\ ops' = <<"spawn">>
    /\ process' = [prog |-> ProgName(platform), args |-> <<"-v", "0">>,
                   flags |-> CreationFlags(platform), env |-> environ, sig |-> "none"]
    /\ pc' = "read"
    /\ UNCHANGED <<hostVars, entry, nexpected, err, buffer, counter, msgs, idle>>
    /\ UNCHANGED <<written, rd, outClosed, procGone>>

\* create_subprocess_exec raises: the executable is missing or cannot start.
ScriptSpawnFail ==
    /\ pc = "start"
    /\ platform \in ScriptPlatforms
    /\ pc' = "raised"
    /\ err' = "launch"
    /\ ops' = <<"spawn_err">>
    /\ UNCHANGED <<hostVars, entry, nexpected, buffer, counter, msgs, idle, process, childVars>>

\* One pass of the script's "while True".  Only asyncio.TimeoutError is caught:
\* ProcessLookupError from send_signal leaves the generator as it is.
ScriptReadLine ==
    /\ pc = "read"
    /\ LineReady
    /\ rd' = rd + Len(NextLine)
    /\ idle' = NewWindow(idle)
    /\ LET opsNow == Append(ops, "read") IN
       IF NextLine = <<>>
       THEN /\ pc' = "wait_eof"
            /\ ops' = opsNow
            /\ UNCHANGED <<buffer, counter, msgs, err, process>>
       ELSE LET r == ScriptScanLoop(buffer \o NextLine, counter, msgs, NumJson) IN
            /\ buffer' = r.buffer
            /\ counter' = r.counter
            /\ msgs' = r.msgs
            /\ IF r.outcome = "count"
               THEN IF procGone
                    THEN /\ pc' = "raised"
                         /\ err' = "lookup"
                         /\ ops' = Append(opsNow, "signal_err")
                         /\ UNCHANGED process
                    ELSE /\ pc' = "wait_sig"
                         /\ ops' = Append(opsNow, "signal")
                         /\ process' = [process EXCEPT !.sig = SignalKind(platform)]
                         /\ UNCHANGED err
               ELSE /\ pc' = "read"
                    /\ ops' = opsNow
                    /\ UNCHANGED <<err, process>>
    /\ UNCHANGED <<hostVars, entry, nexpected, written, outClosed, childState, procGone>>

\* "except asyncio.TimeoutError as e: print(...); process.kill(); raise e": the
\* child is killed and the error leaves the generator at once.  The read was
\* pending, so the child's stdout is open and its process is still there.
ScriptStallTimeout ==
    /\ pc = "read"
    /\ ~LineReady
    /\ idle' = Timeout
    /\ ops' = ops \o <<"read_timeout", "kill">>
    /\ childState' = "exited"
    /\ outClosed' = TRUE
    /\ pc' = "raised"
    /\ err' = "timeout"
    /\ UNCHANGED <<hostVars, entry, nexpected, buffer, counter, msgs, written, rd, procGone, process>>

NextScript ==
    \/ ScriptUnsupported
    \/ ScriptSpawn
    \/ ScriptSpawnFail
    \/ ScriptReadLine
    \/ ScriptStallTimeout
    \/ ProcessWait
    \/ ChildWrite
    \/ ChildWriteLast
    \/ ChildCloseStdout
    \/ ChildExit
    \/ LoopReap

SpecScript == InitScript /\ [][NextScript]_vars

\* ----------------------------------------------- the command-line tools
\* scripts/cross-unittest.py and scripts/specs_diff.py run on their own: no
\* harness, no child of the harness.  Their state is the record tool.
restVars ==
    <<entry, nexpected, pc, err, buffer, counter, msgs, ops, idle, process, platform,
      environ, test, stderrFill, childVars>>

\* The harness is not running.
NoHarness ==
    /\ entry = "file"
    /\ nexpected = 1
    /\ pc = "start"
    /\ err = "none"
    /\ buffer = <<>>
    /\ counter = 0
    /\ msgs = <<>>
    /\ ops = <<>>
    /\ idle = 0
    /\ written = <<>>
    /\ rd = 0
    /\ outClosed = FALSE
    /\ childState = "none"
    /\ procGone = FALSE
    /\ process = NoProcess
    /\ platform = "Linux"
    /\ environ = {}
    /\ test = NoTest
    /\ stderrFill = 0

\* ---------------------------------------------------- scripts/cross-unittest.py
\* Most lines of the cargo output file.
MaxCargoLines == 3

\* A line of the cargo output file: the message of a test binary (profile.test
\* is true), the message of another artifact, a message without a profile, and
\* a line that is not JSON.
CargoLines ==
    { [json |-> TRUE, profile |-> "test", executable |-> "t1"],
      [json |-> TRUE, profile |-> "test", executable |-> "t2"],
      [json |-> TRUE, profile |-> "other", executable |-> "lib"],
      [json |-> TRUE, profile |-> "none", executable |-> ""],
      [json |-> FALSE, profile |-> "none", executable |-> ""] }

RECURSIVE CargoFiles(_)
CargoFiles(n) ==
    IF n = 0 THEN {<<>>}
    ELSE CargoFiles(n - 1) \cup {f \o <<l>> : f \in CargoFiles(n - 1), l \in CargoLines}

\* What a test binary run under qemu-arm returns: success, a failure, the
\* code of a failed Rust test run.
ReturnCodes == {0, 1, 101}

InitCross ==
    /\ NoHarness
    /\ \E exists \in BOOLEAN : \E f \in CargoFiles(MaxCargoLines) :
          /\ exists \/ f = <<>>
          /\ tool = [name |-> "cross-unittest", pc |-> "read", exists |-> exists,
                     lines |-> f, test_binaries |-> <<>>, next |-> 1, exit_code |-> 0,
                     ran |-> <<>>, raised |-> "none", status |-> 0]

\* "entry.get('profile', {}).get('test') == True"
IsTestEntry(l) == l.profile = "test"

\* The list comprehension of lines 27-30.
RECURSIVE TestBinaries(_)
TestBinaries(f) ==
    IF f = <<>> THEN <<>>
    ELSE (IF IsTestEntry(f[1]) THEN <<f[1].executable>> ELSE <<>>)
         \o TestBinaries(SubSeq(f, 2, Len(f)))

\* The interpreter ends the script: sys.exit(code), or an exception that
\* nothing catches, which prints a traceback and gives status 1.
ToolExit(code, exc) == [tool EXCEPT !.pc = "exited", !.status = code, !.raised = exc]

\* Lines 19-37: the file is read and parsed line by line, the test binaries
\* are picked.  Only FileNotFoundError is caught; json.loads raising on a line
\* ends the script.
CrossRead ==
    /\ tool.name = "cross-unittest" /\ tool.pc = "read"
    /\ tool' =
          IF ~tool.exists THEN ToolExit(1, "none")
          ELSE IF \E k \in 1..Len(tool.lines) : ~tool.lines[k].json
          THEN ToolExit(1, "JSONDecodeError")
          ELSE IF TestBinaries(tool.lines) = <<>> THEN ToolExit(0, "none")
          ELSE [tool EXCEPT !.pc = "run", !.test_binaries = TestBinaries(tool.lines)]
    /\ UNCHANGED restVars

\* A loop that would let the last binary decide.
ExitCodeOfLast(exit_code, returncode) == IF returncode # 0 THEN 1 ELSE 0

\* "if result.returncode != 0: exit_code = 1"
ExitCodeAfter(exit_code, returncode) == IF returncode # 0 THEN 1 ELSE exit_code

\* One pass of the for loop (lines 40-49): the binary runs under qemu-arm and
\* returns a code.
CrossRun ==
    /\ tool.name = "cross-unittest" /\ tool.pc = "run"
    /\ tool.next <= Len(tool.test_binaries)
    /\ \E code \in ReturnCodes :
          tool' = [tool EXCEPT
                      !.ran = Append(@, [binary |-> tool.test_binaries[tool.next],
                                         returncode |-> code]),
                      !.exit_code = ExitCodeAfter(@, code),
                      !.next = @ + 1]
    /\ UNCHANGED restVars

\* subprocess.run raises: qemu-arm cannot be started.  Nothing catches it.
CrossRunFail ==
    /\ tool.name = "cross-unittest" /\ tool.pc = "run"
    /\ tool.next <= Len(tool.test_binaries)
    /\ tool' = ToolExit(1, "FileNotFoundError")
    /\ UNCHANGED restVars

\* "sys.exit(exit_code)" after the loop.
CrossExit ==
    /\ tool.name = "cross-unittest" /\ tool.pc = "run"
    /\ tool.next > Len(tool.test_binaries)
    /\ tool' = ToolExit(tool.exit_code, "none")
    /\ UNCHANGED restVars

NextCross == CrossRead \/ CrossRun \/ CrossRunFail \/ CrossExit

SpecCross == InitCross /\ [][NextCross]_vars

\* -------------------------------------------------------- scripts/specs_diff.py
\* Most pairs of specs_diff.json, most specs one file of a pair holds.
MaxPairs == 3
MaxSpecs == 2

\* The script after read_pairs(): the list has some number of pairs, the
\* totals are zero.  What the two extractions find in a pair's files is known
\* only when the loop reaches the pair.
InitDiff ==
    /\ NoHarness
    /\ \E n \in 0..MaxPairs :
          tool = [name |-> "specs_diff", pc |-> "loop", npairs |-> n, next |-> 1,
                  total_js_count |-> 0, total_py_count |-> 0,
                  raised |-> "none", status |-> 0]

\* One pass of "for p in pairs" (lines 98-124): the specs of the two files are
\* extracted and compared, the totals grow by their numbers.
DiffPair ==
    /\ tool.name = "specs_diff" /\ tool.pc = "loop"
    /\ tool.next <= tool.npairs
    /\ \E js_specs \in 0..MaxSpecs : \E py_specs \in 0..MaxSpecs :
          tool' = [tool EXCEPT !.total_js_count = @ + js_specs,
                               !.total_py_count = @ + py_specs,
                               !.next = @ + 1]
    /\ UNCHANGED restVars

\* "if total_py_count < total_js_count: exit(-1) else: exit(0)"
StatusOfTotals(py, js) == IF py < js THEN -1 ELSE 0

\* After the loop (lines 126-136): the totals are printed, the percentage
\* total_py_count * 1.0 / total_js_count is formatted, and the script exits.
\* The division raises ZeroDivisionError when the JS total is zero.
DiffReport ==
    /\ tool.name = "specs_diff" /\ tool.pc = "loop"
    /\ tool.next > tool.npairs
    /\ tool' = IF tool.total_js_count = 0
               THEN ToolExit(1, "ZeroDivisionError")
               ELSE ToolExit(StatusOfTotals(tool.total_py_count, tool.total_js_count), "none")
    /\ UNCHANGED restVars

NextDiff == DiffPair \/ DiffReport

SpecDiff == InitDiff /\ [][NextDiff]_vars

\* ============================================================== properties
\* The wire protocol, read line by line: a frame is a complete line that holds
\* a record separator, its payload is the text after the line's first
\* separator.  The properties are stated against this reading of the stream.
Count(s, x) == Cardinality({i \in 1..Len(s) : s[i] = x})

\* What readline (or Feed) has handed to the decode loop so far.
Consumed == SubSeq(written, 1, rd)

RECURSIVE RefLines(_)
RefLines(t) ==
    IF ~Contains(t, LF) THEN <<>>
    ELSE <<SplitHead(t, LF)>> \o RefLines(SplitTail(t, LF))

HasFrame(line) == Contains(line, RS)
FramePayloads(t) ==
    LET frames == SelectSeq(RefLines(t), HasFrame)
    IN  [i \in 1..Len(frames) |-> SplitTail(frames[i], RS)]

\* The text after the line feed that ends the j-th frame of t.
RECURSIVE AfterFrame(_, _)
AfterFrame(t, j) ==
    LET tail == SplitTail(t, LF) IN
    IF HasFrame(SplitHead(t, LF))
    THEN IF j = 1 THEN tail ELSE AfterFrame(tail, j - 1)
    ELSE AfterFrame(tail, j)

\* The number a payload is the JSON text of, 0 for a payload that is none.
RefValue(payload) ==
    LET vs == {v \in JsonValues(Len(payload)) : JsonDumps(v) = payload}
    IN  IF vs = {} THEN 0 ELSE CHOOSE v \in vs : TRUE

IsJson(payload) == RefValue(payload) # 0
NoBadFrame(t) == \A i \in 1..Len(FramePayloads(t)) : IsJson(FramePayloads(t)[i])
RefValues(t) == [i \in 1..Len(FramePayloads(t)) |-> RefValue(FramePayloads(t)[i])]

\* The index of the first frame of t whose payload is not JSON, 0 if none.
FirstBad(t) ==
    LET bad == {i \in 1..Len(FramePayloads(t)) : ~IsJson(FramePayloads(t)[i])}
    IN  IF bad = {} THEN 0 ELSE CHOOSE i \in bad : \A j \in bad : i <= j

Min(a, b) == IF a <= b THEN a ELSE b

\* C1: for nexpected = k >= 1 and a stream of more than k well-formed frames,
\* exactly k messages are yielded and the facade returns a list of length k, the
\* cancellation signal is sent once the k-th message is yielded (and not
\* before), and nothing is read after the read that completed the k-th frame.
C1_Pre ==
    /\ nexpected >= 1
    /\ NoBadFrame(written)
    /\ Len(FramePayloads(written)) > nexpected

C1_CountTermination ==
    C1_Pre =>
        /\ Len(msgs) <= nexpected
        /\ Has(ops, "signal") => Len(msgs) = nexpected
        /\ Len(msgs) = nexpected =>
              /\ Has(ops, "signal")
              /\ pc # "read"
              /\ Len(FramePayloads(Consumed)) = nexpected
              /\ Consumed = <<>> \/ Consumed[Len(Consumed)] = LF
              /\ HasFrame(RefLines(Consumed)[Len(RefLines(Consumed))])
        /\ (Finished /\ Len(msgs) = nexpected /\ err # "cancelled") => pc = "returned"

\* C2: whenever the facade returns or raises after the child was spawned, the
\* child has exited and has been waited on (by process.wait(), or reaped by the
\* loop's child watcher).
C2_ChildReapedAtExit ==
    (Finished /\ childState # "none") =>
        /\ childState = "exited"
        /\ Has(ops, "wait") \/ procGone

\* C3: a readline that stays pending for the bound of 8 makes the invocation
\* raise the timeout error; the child is killed right after the timeout, then
\* waited on, and only then does the error reach the caller.
C3_StallKillWaitRaise ==
    /\ err = "timeout" => Has(ops, "read_timeout")
    /\ \A i \in 1..Len(ops) : ops[i] = "read_timeout" =>
          /\ idle = Timeout /\ Timeout = 8
          /\ i < Len(ops) /\ ops[i + 1] = "kill"
          /\ childState = "exited"
          /\ pc \in {"wait_kill", "raised"}
          /\ pc = "wait_kill" => err = "timeout" /\ Len(ops) = i + 1
          /\ pc = "raised" =>
                \/ err = "cancelled" /\ Len(ops) = i + 1
                \/ err = "timeout" /\ Len(ops) = i + 2 /\ ops[i + 2] = "wait"

C3_Witness ==
    /\ pc = "raised" /\ err = "timeout" /\ idle = Timeout
    /\ Len(msgs) = 1 /\ nexpected = 2
    /\ ops[Len(ops)] = "wait" /\ ops[Len(ops) - 1] = "kill"

\* C4: on a stream of well-formed frames the messages collected are the
\* decoded payloads of the frames read, in stream order, none repeated and none
\* left out; the list returned for nexpected <= N is the first nexpected of them.
C4_StreamOrder ==
    NoBadFrame(written) =>
        /\ msgs = RefValues(Consumed)
        /\ \A i \in 1..Len(msgs) : msgs[i] = RefValues(written)[i]
        /\ (pc = "returned" /\ nexpected >= 1 /\ nexpected <= Len(FramePayloads(written)))
              => msgs = SubSeq(RefValues(written), 1, nexpected)

C4_Witness ==
    /\ pc = "returned" /\ nexpected = 2
    /\ NoBadFrame(written) /\ Len(FramePayloads(written)) = 3
    /\ Len(msgs) = 2 /\ msgs[1] = 12 /\ msgs[2] = 1

\* C6: a child that writes m < nexpected well-formed frames and exits makes the
\* facade return exactly those m messages, in order: no exception, no
\* cancellation signal, no kill.
C6_Short == NoBadFrame(written) /\ Len(FramePayloads(written)) < nexpected

C6_ShortfallReturns ==
    /\ (pc = "returned" /\ Len(msgs) < nexpected) =>
          /\ err = "none"
          /\ outClosed /\ rd = Len(written)
          /\ msgs = RefValues(written)
          /\ ~Has(ops, "signal") /\ ~Has(ops, "signal_err")
          /\ ~Has(ops, "kill") /\ ~Has(ops, "kill_err")
          /\ Count(ops, "wait") = 1 /\ ops[Len(ops)] = "wait"
    /\ C6_Short => ~Has(ops, "signal") /\ ~Has(ops, "signal_err")
    /\ (C6_Short /\ childState = "exited" /\ ~Has(ops, "kill")) =>
          /\ pc \in {"read", "wait_eof", "returned", "raised"}
          /\ pc = "raised" => err = "cancelled"
          /\ pc \in {"wait_eof", "returned"} => msgs = RefValues(written)

C6_Witness ==
    /\ pc = "returned" /\ nexpected = 2 /\ err = "none"
    /\ msgs = <<12>> /\ Len(RefLines(written)) = 3

\* C5: a JSON value V framed (record separator, JSON text of V, line feed) and
\* appended to the buffer in consecutive chunks, however the text is split,
\* yields exactly one message, V, and yields it only on the chunk that
\* delivers the line feed; until then the buffer keeps everything fed so far.
C5_FrameReassembly ==
    \A v \in JsonValues(MaxDigits) :
        written = Framed(JsonDumps(v)) =>
            /\ rd < Len(written) =>
                  msgs = <<>> /\ counter = 0 /\ pc = "feed" /\ buffer = Consumed
            /\ rd = Len(written) =>
                  msgs = <<v>> /\ counter = 1 /\ buffer = <<>>

C5_Witness ==
    /\ entry = "harness"
    /\ written = Framed(<<"1", "2">>) /\ rd = Len(written)
    /\ Len(ops) >= 2
    /\ msgs = <<12>>

\* C7: for every nexpected >= 0 the number of messages yielded never exceeds
\* nexpected, and the collector stops on the count path exactly when the
\* number yielded equals nexpected.
C7_CountStop == Has(ops, "signal") \/ Has(ops, "signal_err")

C7_YieldedWithinExpected ==
    /\ 0 <= counter /\ counter <= nexpected
    /\ Len(msgs) = counter
    /\ C7_CountStop => counter = nexpected
    /\ (counter = nexpected /\ counter >= 1) => C7_CountStop

\* C8: a complete frame whose payload is not JSON makes the invocation fail
\* with the JSON decode error; the child is killed and waited on before the
\* error reaches the caller, and no frame after the bad one is decoded.
C8_DecodeErrorFatal ==
    FirstBad(Consumed) # 0 =>
        /\ pc \in {"wait_kill", "raised"}
        /\ msgs = SubSeq(RefValues(Consumed), 1, FirstBad(Consumed) - 1)
        /\ pc = "wait_kill" => err = "decode" /\ ops[Len(ops)] = "kill"
        /\ (pc = "raised" /\ err # "cancelled") =>
              /\ err = "decode"
              /\ ops[Len(ops)] = "wait" /\ ops[Len(ops) - 1] = "kill"

\* C9 as stated: a frame whose payload fails JSON parsing does not stop the
\* scan; every well-formed frame after it is still decoded and yielded (up to
\* the requested count).
IsValue(v) == v # 0
GoodValues(t) == SelectSeq(RefValues(t), IsValue)

C9_ScanContinues ==
    msgs = SubSeq(GoodValues(Consumed), 1, Min(nexpected, Len(GoodValues(Consumed))))

\* C9 amended: in the harness a payload that fails JSON parsing leaves the
\* buffer holding exactly the text after the bad frame's line feed, but the
\* error ends the scan: the messages are those of the frames before the bad
\* one and no later frame is decoded.  Only the script's loop skips the bad
\* frame and goes on to yield the well-formed frames after it.
C9_ErrorStopsHarnessScan ==
    LET j == FirstBad(Consumed) IN
    /\ entry = "harness" =>
          /\ pc = "decode_error" <=> (j # 0 /\ j - 1 < nexpected)
          /\ pc = "decode_error" =>
                /\ msgs = SubSeq(RefValues(Consumed), 1, j - 1)
                /\ counter = j - 1
                /\ buffer = AfterFrame(Consumed, j)
          /\ j # 0 => Len(msgs) <= j - 1
    /\ entry = "script" =>
          /\ pc # "decode_error"
          /\ msgs = SubSeq(GoodValues(Consumed), 1, Min(nexpected, Len(GoodValues(Consumed))))

C9_Witness ==
    /\ entry = "harness" /\ pc = "decode_error"
    /\ written = Framed(<<"x">>) \o Framed(<<"1", "2">>) /\ rd = Len(written)
    /\ msgs = <<>> /\ buffer = Framed(<<"1", "2">>)

\* C10: in every completed invocation (success, timeout or error path) the
\* child is waited on exactly once, after exactly one termination request
\* (the cancellation signal or a kill).
C10_WaitedOnceAfterOneRequest ==
    (Finished /\ err # "cancelled" /\ childState # "none") =>
        /\ Count(ops, "wait") = 1
        /\ Count(ops, "signal") + Count(ops, "kill") = 1
        /\ \E i \in 1..Len(ops) : \E j \in (i + 1)..Len(ops) :
              ops[i] \in {"signal", "kill"} /\ ops[j] = "wait"

\* C11: an invocation in which the requested count was reached never calls
\* process.kill: the count-reached path is the cooperative signal followed by
\* the wait and the return, and kill belongs to the invocations that ended by
\* a stall timeout or an error during collection.
C11_CountReached == Has(ops, "signal") \/ Has(ops, "signal_err")

C11_NoKillOnCountPath ==
    C11_CountReached =>
        /\ ~Has(ops, "kill") /\ ~Has(ops, "kill_err")
        /\ Has(ops, "signal")
        /\ (Finished /\ err # "cancelled") =>
              /\ pc = "returned"
              /\ ops[Len(ops)] = "wait" /\ ops[Len(ops) - 1] = "signal"

\* C12: the cancellation signal is sent at most once per invocation and only
\* once the number of yielded messages has reached nexpected, right after the
\* read that completed the last frame; it is never sent at end-of-stream,
\* after a timeout or after a decode error, and nothing is read after it.
C12_SignalOnlyAtCount ==
    /\ Count(ops, "signal") + Count(ops, "signal_err") <= 1
    /\ \A i \in 1..Len(ops) : ops[i] \in {"signal", "signal_err"} =>
          /\ counter >= nexpected /\ counter >= 1 /\ Len(msgs) = counter
          /\ i > 1 /\ ops[i - 1] = "read"
          /\ \A j \in 1..Len(ops) : ops[j] = "read" => j < i
          /\ ~Has(ops, "read_timeout")
          /\ err \notin {"timeout", "decode"}
          /\ FirstBad(Consumed) = 0
          /\ pc # "wait_eof"
          /\ Len(FramePayloads(Consumed)) = counter
          /\ Consumed[Len(Consumed)] = LF
          /\ HasFrame(RefLines(Consumed)[Len(RefLines(Consumed))])
    /\ (pc = "wait_eof" \/ err \in {"timeout", "decode", "stdin", "launch"}) =>
          ~Has(ops, "signal") /\ ~Has(ops, "signal_err")

C12_Witness ==
    /\ pc = "returned" /\ nexpected = 2 /\ Len(msgs) = 2
    /\ Count(ops, "signal") = 1
    /\ Len(RefLines(written)) = 3

\* C13: the inactivity bound applies to each read separately: the window of
\* a pending read counts only the time since that read began, a stall timeout
\* happens only when one single read has been pending for the whole bound of
\* 8, and the time the invocation lasts in all is not bounded by it.
RECURSIVE TrailingTicks(_)
TrailingTicks(s) ==
    IF s = <<>> \/ s[Len(s)] # "tick" THEN 0
    ELSE 1 + TrailingTicks(SubSeq(s, 1, Len(s) - 1))

C13_PerReadWindow ==
    /\ idle <= Timeout /\ Timeout = 8
    /\ pc = "read" => idle = TrailingTicks(ops)
    /\ \A i \in 1..Len(ops) : ops[i] = "read_timeout" =>
          /\ i > Timeout
          /\ \A k \in 1..Timeout : ops[i - k] = "tick"
    /\ (pc = "read" /\ TrailingTicks(ops) < Timeout) => ~ENABLED TimedStall

C13_Witness ==
    /\ pc = "returned" /\ Len(msgs) = 1
    /\ NumTicks > Timeout
    /\ Count(ops, "read") >= 2
    /\ ~Has(ops, "read_timeout")

\* C14: assuming the child exits whenever it is signalled or killed, every
\* invocation eventually returns or raises, whatever the child writes.
\* The harness task runs whenever it can and wait_for's timer fires on a read
\* that stays pending; the child exits once it has been signalled (a kill
\* ends it at once).  Nothing else is assumed of the child.
Start == Spawn \/ SpawnFail \/ WriteStdinFail
ExitOnSignal == Has(ops, "signal") /\ ChildExit

SpecLive ==
    /\ Init /\ [][Next]_vars
    /\ WF_vars(Start)
    /\ WF_vars(ReadLine)
    /\ WF_vars(StallTimeout)
    /\ WF_vars(ProcessWait)
    /\ WF_vars(ExitOnSignal)

C14_EventuallyFinished == <>Finished

\* C15: after the cancellation signal the harness only waits for the child's
\* exit: while the child runs the invocation neither returns nor raises of
\* its own (no timeout, no kill), and once the child has exited the wait ends
\* and the invocation returns the messages collected.  Only a cancellation of
\* the awaiting task by its caller ends the wait otherwise.
C15_Step ==
    pc = "wait_sig" =>
        \/ UNCHANGED harnessVars
        \/ /\ childState = "exited"
           /\ pc' = "returned" /\ err' = err /\ msgs' = msgs
           /\ ops' = Append(ops, "wait")
        \/ pc' = "raised" /\ err' = "cancelled" /\ ops' = ops

C15_WaitAfterSignal == [][C15_Step]_vars

C15_Witness ==
    /\ pc = "returned" /\ nexpected = 1 /\ msgs = <<12>>
    /\ ops[Len(ops)] = "wait" /\ ops[Len(ops) - 1] = "signal"

\* C16: when the child's stdout ends before nexpected messages were yielded,
\* the collection loop ends normally and the invocation returns the partial
\* list, whether the child has exited or has only closed its output.
C16_PartialList ==
    /\ pc = "returned"
    /\ Len(msgs) <= nexpected
    /\ msgs = RefValues(written)
    /\ ~Has(ops, "signal") /\ ~Has(ops, "kill")

C16_EndOfStreamReturns == (pc = "wait_eof") ~> (C16_PartialList \/ err = "cancelled")

\* C17: text that precedes a record separator (before the first frame, or
\* between the line feed of one frame and the separator of the next, on lines
\* of its own or on the frame's line) is dropped: the messages, the count and
\* a decode error are those of the stream with that text removed, and every
\* message is the value of a frame's payload.
RECURSIVE FramesOnly(_)
FramesOnly(t) ==
    IF ~Contains(t, LF) THEN <<>>
    ELSE LET line == SplitHead(t, LF) IN
         (IF HasFrame(line) THEN <<RS>> \o SplitTail(line, RS) \o <<LF>> ELSE <<>>)
             \o FramesOnly(SplitTail(t, LF))

C17_LeadingTextDropped ==
    LET r == ScanLoop(FramesOnly(Consumed), 0, <<>>, nexpected) IN
    /\ msgs = r.msgs /\ counter = r.counter
    /\ Len(msgs) <= Len(FramePayloads(Consumed))
    /\ \A i \in 1..Len(msgs) : msgs[i] = RefValue(FramePayloads(Consumed)[i])
    /\ err = "decode" => (r.outcome = "decode_error" /\ FirstBad(Consumed) # 0)

C17_Witness ==
    /\ pc = "returned" /\ nexpected = 2
    /\ written = <<"x", LF, "2", RS, "2", LF, RS, "1", LF>>
    /\ msgs = <<2, 1>>

\* C18: run_edgelink_with_json_object writes the JSON text to the child's
\* stdin and closes stdin before the first read of stdout, each exactly once;
\* a failure of the write or of the close leads to kill, then wait, before the
\* error reaches the caller, and nothing is read.  run_edgelink never touches
\* stdin.
C18_StdinOp(x) == x \in {"stdin_write", "stdin_close", "stdin_write_err", "stdin_close_err"}

C18_StdinBeforeRead ==
    /\ entry = "file" => \A i \in 1..Len(ops) : ~C18_StdinOp(ops[i])
    /\ entry = "stdin" =>
          /\ Count(ops, "stdin_write") + Count(ops, "stdin_write_err") <= 1
          /\ Count(ops, "stdin_close") + Count(ops, "stdin_close_err") <= 1
          /\ childState # "none" =>
                /\ Len(ops) >= 2 /\ ops[1] = "spawn"
                /\ ops[2] \in {"stdin_write", "stdin_write_err"}
                /\ ops[2] = "stdin_write" =>
                      Len(ops) >= 3 /\ ops[3] \in {"stdin_close", "stdin_close_err"}
          /\ \A i \in 1..Len(ops) : ops[i] \in {"read", "read_timeout"} =>
                i > 3 /\ ops[2] = "stdin_write" /\ ops[3] = "stdin_close"
          /\ \A i \in 1..Len(ops) : ops[i] \in {"stdin_write_err", "stdin_close_err"} =>
                /\ ~Has(ops, "read") /\ ~Has(ops, "read_timeout") /\ msgs = <<>>
                /\ Len(ops) > i /\ ops[i + 1] = "kill"
                /\ childState = "exited"
                /\ pc \in {"wait_kill", "raised"}
                /\ pc = "wait_kill" => err = "stdin" /\ Len(ops) = i + 1
                /\ pc = "raised" =>
                      \/ err = "cancelled" /\ Len(ops) = i + 1
                      \/ err = "stdin" /\ Len(ops) = i + 2 /\ ops[i + 2] = "wait"

C18_Witness ==
    /\ entry = "stdin" /\ pc = "returned" /\ msgs = <<1>>
    /\ SubSeq(ops, 1, 4) = <<"spawn", "stdin_write", "stdin_close", "read">>

\* C19: the two entry points treat the child alike: once the child is
\* started they are in the same state but for the stdin write and close of
\* the stdin-driven one, no later step touches stdin, and every step that
\* runs an entry point's exception handler is the step the other entry
\* point's handler takes in that state (same kill, same wait, same error).
C19_CollectionOp(x) == ~C18_StdinOp(x)
C19_Errors == {"timeout", "decode", "lookup"}

C19_Step ==
    /\ entry' = entry
    /\ (pc = "start" /\ pc' = "read") =>
          /\ SelectSeq(ops', C19_CollectionOp) = <<"spawn">>
          /\ buffer' = <<>> /\ counter' = 0 /\ msgs' = <<>> /\ err' = "none"
          /\ childState' = "running"
    /\ pc # "start" =>
          /\ SelectSeq(ops', C19_CollectionOp) = ops' \/ entry = "stdin"
          /\ \A i \in (Len(ops) + 1)..Len(ops') : C19_CollectionOp(ops'[i])
          /\ (Len(ops') > Len(ops) /\ ops'[Len(ops')] \in {"kill", "kill_err"}) =>
                \E e \in C19_Errors :
                    /\ ExceptFile(e, SubSeq(ops', 1, Len(ops') - 1))
                    /\ ExceptStdin(e, SubSeq(ops', 1, Len(ops') - 1))

C19_SameCollection == [][C19_Step]_vars

C19_Witness ==
    /\ entry = "stdin" /\ pc = "raised" /\ err = "decode"
    /\ msgs = <<12>>
    /\ ops[Len(ops)] = "wait" /\ ops[Len(ops) - 1] = "kill"

\* C20: when the executable cannot be found or spawned the launch error
\* reaches the caller at once: one spawn attempt, and no stdin write, read,
\* signal, kill or wait on any process.
C20_LaunchErrorPropagates ==
    /\ Count(ops, "spawn") + Count(ops, "spawn_err") <= 1
    /\ Has(ops, "spawn_err") <=> err = "launch"
    /\ err = "launch" =>
          /\ pc = "raised"
          /\ ops = <<"spawn_err">>
          /\ childState = "none" /\ written = <<>> /\ rd = 0
          /\ msgs = <<>> /\ counter = 0
    /\ Len(ops) >= 1 => ops[1] \in {"spawn", "spawn_err"}

C20_Witness ==
    /\ entry = "stdin" /\ pc = "raised" /\ err = "launch"
    /\ ops = <<"spawn_err">>

\* C21: after every decode step that ran the scan loop to its end, the buffer
\* holds no complete frame (no record separator with a line feed after it): it
\* is the text fed so far before any frame was complete, and from then on the
\* text after the last complete frame.  Every step leaves in the buffer an end
\* of the old buffer with the chunk appended: the buffer changes by the append
\* and by trimming at its front only.
NoCompleteFrame(t) ==
    ~ \E i \in 1..Len(t) : \E j \in (i + 1)..Len(t) : t[i] = RS /\ t[j] = LF

IsSuffix(s, t) == Len(s) <= Len(t) /\ s = SubSeq(t, Len(t) - Len(s) + 1, Len(t))

C21_Step ==
    /\ IsSuffix(buffer', buffer \o SubSeq(written, rd + 1, rd'))
    /\ pc' = "feed" =>
          /\ NoCompleteFrame(buffer')
          /\ buffer' = IF Len(FramePayloads(Consumed')) = 0 THEN Consumed'
                       ELSE AfterFrame(Consumed', Len(FramePayloads(Consumed')))

C21_BufferHoldsNoCompleteFrame == [][C21_Step]_vars

C21_Witness ==
    /\ entry = "harness" /\ pc = "feed"
    /\ written = Framed(<<"1">>) \o Framed(<<"1", "2">>)
    /\ counter = 1
    /\ buffer = <<RS, "1">>

\* C24: every child the facade launched was given '-v' '0' first and then
\* exactly one of '-f <path>' (run_edgelink) and '--stdin'
\* (run_edgelink_with_json_object), never both; run_edgelink performs no
\* operation on the child's stdin.
C24_LaunchArguments ==
    /\ (Len(ops) > 0 /\ ops[1] = "spawn") <=> process # NoProcess
    /\ process # NoProcess =>
          /\ Len(process.args) >= 2
          /\ SubSeq(process.args, 1, 2) = <<"-v", "0">>
          /\ Count(process.args, "-f") + Count(process.args, "--stdin") = 1
          /\ entry = "file" =>
                /\ process.args = <<"-v", "0", "-f", "flows_path">>
                /\ \A i \in 1..Len(ops) : ~C18_StdinOp(ops[i])
          /\ entry = "stdin" => process.args = <<"-v", "0", "--stdin">>

C24_Witness ==
    /\ entry = "file" /\ pc = "returned" /\ Len(msgs) = 1
    /\ process.args = <<"-v", "0", "-f", "flows_path">>
    /\ ops[1] = "spawn" /\ ops[2] = "read"

C25_NotEmpty(payload) == payload # <<>>

C25_EmptyPayloadSkipped ==
    LET full == SelectSeq(FramePayloads(Consumed), C25_NotEmpty) IN
    (\A i \in 1..Len(full) : IsJson(full[i])) =>
        /\ err # "decode"
        /\ \A i \in 1..Len(msgs) : i <= Len(full) /\ msgs[i] = RefValue(full[i])

\* C28 as stated: once the count is reached the invocation ends by returning
\* the collected messages, also when the child had exited on its own before
\* the signal was sent.
C28_ExitedChildStillReturns ==
    (nexpected >= 1 /\ C11_CountReached /\ Finished /\ err # "cancelled") =>
        /\ pc = "returned" /\ err = "none"
        /\ Len(msgs) = counter /\ counter >= nexpected

\* C30: an invocation that returns has raised nothing, and one that met a
\* stall timeout or a frame that is not JSON never returns: whatever was
\* collected before is not handed to the caller.  A returned list shorter than
\* nexpected comes from the end-of-stream path only: no signal, the last read
\* returned b'' and the wait followed it.
C30_FailureGivesOnlyException ==
    /\ pc = "returned" => err = "none"
    /\ (Has(ops, "read_timeout") \/ FirstBad(Consumed) # 0) => pc # "returned"
    /\ (Finished /\ err \in {"timeout", "decode"}) => pc = "raised"
    /\ (pc = "returned" /\ Len(msgs) < nexpected) =>
          /\ ~Has(ops, "signal") /\ ~Has(ops, "kill")
          /\ outClosed /\ rd = Len(written)
          /\ Len(ops) >= 2 /\ ops[Len(ops)] = "wait" /\ ops[Len(ops) - 1] = "read"

C30_Witness ==
    /\ nexpected = 2 /\ Len(msgs) = 1
    /\ pc = "raised" /\ err = "decode"
    /\ ops[Len(ops)] = "wait"

\* C27 as stated: in the standalone script a stall timeout reaches the caller
\* only after the child was killed and waited on.
C27_ScriptKillWaitRaise ==
    (entry = "script" /\ pc = "raised" /\ err = "timeout") =>
        /\ Len(ops) >= 3
        /\ ops[Len(ops)] = "wait"
        /\ ops[Len(ops) - 1] = "kill"
        /\ ops[Len(ops) - 2] = "read_timeout"

\* C29 as stated: no state is reachable in which the harness awaits
\* process.wait() while the child is blocked writing to a full stdout or
\* stderr pipe.
C29_NeverWaitsOnBlockedChild ==
    ~ (/\ pc \in {"wait_sig", "wait_eof", "wait_kill"}
       /\ childState \in {"blocked_out", "blocked_err"})

\* C23 as stated: the child of a test that sets an environment variable is
\* spawned with the variable set, and once the test has ended the variable is
\* no longer set in the harness process, whether the invocation returned or
\* raised.
C23_EnvSetForOneTest ==
    /\ (test.name \in EnvTests /\ process # NoProcess) =>
          EnvVarOf(test.name) \in process.env
    /\ test.phase = "ended" => environ = {}

\* C22: of two invocations interleaved on one loop, each works on its own
\* child, buffer and counter.  Every operation on child i was performed by
\* invocation i; the buffer of i is an end of what i read from child i, its
\* messages are the values of the first frames of child i, and what it returns
\* is what one invocation alone returns for that child's output: the first
\* nexpected values, or all of them at end-of-stream.  A step that changes the
\* locals of one invocation changes neither the locals of the other nor the
\* other's child.
LocalsOf(i) == <<pc[i], err[i], buffer[i], counter[i], msgs[i], idle[i]>>
ChildOf(c) ==
    <<written[c], rd[c], outClosed[c], childState[c], procGone[c], ops[c], process[c]>>

C22_Own(i, done, n, buf, out, text, taken, at, e) ==
    /\ \A k \in 1..Len(done) : done[k].by = i
    /\ n = Len(out)
    /\ IsSuffix(buf, SubSeq(text, 1, taken))
    /\ out = SubSeq(RefValues(SubSeq(text, 1, taken)), 1, Len(out))
    /\ at = "returned" =>
          /\ e = "none"
          /\ out = SubSeq(RefValues(text), 1, Min(nexpected[i], Len(FramePayloads(text))))

C22_Step ==
    /\ \A i \in Invocations :
          C22_Own(i, ops'[i], counter'[i], buffer'[i], msgs'[i], written'[i], rd'[i],
                  pc'[i], err'[i])
    /\ \A i \in Invocations : \A j \in Invocations \ {i} :
          LocalsOf(i)' # LocalsOf(i) =>
              /\ LocalsOf(j)' = LocalsOf(j)
              /\ ChildOf(j)' = ChildOf(j)

C22_Independent == [][C22_Step]_vars

C22_Witness ==
    /\ pc[1] = "wait_sig" /\ msgs[1] = <<1>>
    /\ pc[2] = "returned" /\ msgs[2] = <<2>>
    /\ buffer[2] = <<>> /\ written[2] = <<"x", LF, RS, "2", LF>>
    /\ Len(ops[1]) = 3 /\ Len(ops[2]) = 5

\* C31: when the child's output ends in a record separator and text with no
\* line feed after it, that text is never yielded, also when it is JSON, and
\* it raises nothing: the messages are values of the complete frames only, a
\* decode error comes from a complete frame only, and an invocation that
\* returns at end-of-stream returns the values of all complete frames.
RECURSIVE LastLine(_)
LastLine(t) == IF Contains(t, LF) THEN LastLine(SplitTail(t, LF)) ELSE t

C31_TrailingFrame == outClosed /\ rd = Len(written) /\ HasFrame(LastLine(written))

C31_TrailingFrameDropped ==
    C31_TrailingFrame =>
        /\ Len(msgs) <= Len(FramePayloads(written))
        /\ msgs = SubSeq(RefValues(written), 1, Len(msgs))
        /\ err = "decode" => FirstBad(written) # 0
        /\ (pc = "returned" /\ ~Has(ops, "signal")) =>
              /\ err = "none"
              /\ msgs = RefValues(written)

C31_Witness ==
    /\ pc = "returned" /\ nexpected = 2
    /\ written = <<RS, "1", LF, RS, "1">>
    /\ msgs = <<1>>

\* C32 as stated: the inject node's 'repeat' is '' when once is True and '0'
\* when once is False.
C32_RepeatFollowsOnce ==
    (test.name = "single_node" /\ test.phase # "setup") =>
        test.flow[2].repeat = IF test.once = PyTrue THEN PyStr("") ELSE PyStr("0")

\* C33: the caller's node_json is what it was before the call; the flow handed
\* to the facade is the tab '0', the inject node '1' wired to '2', the user
\* node and the console-json node '3'; the user node has the caller's keys and
\* values, id '2', z '0', and the caller's wires if there were any, else
\* [['3']].
C33_UserNode(u, node) ==
    /\ DOMAIN u = DOMAIN node \cup {"id", "z", "wires"}
    /\ u["id"] = "2" /\ u["z"] = "0"
    /\ u["wires"] = IF "wires" \in DOMAIN node THEN node["wires"] ELSE << <<"3">> >>
    /\ \A k \in DOMAIN node \ {"id", "z", "wires"} : u[k] = node[k]

C33_CallerNodeUntouched ==
    test.name = "single_node" =>
        /\ test.heap["node_json"] = test.node
        /\ test.phase # "setup" =>
              /\ Len(test.flow) = 4
              /\ test.flow[1] = [id |-> "0", type |-> "tab"]
              /\ test.flow[2]["id"] = "1" /\ test.flow[2]["type"] = "inject"
              /\ test.flow[2]["wires"] = << <<"2">> >>
              /\ C33_UserNode(test.flow[3], test.node)
              /\ test.flow[4] = [id |-> "3", type |-> "console-json", z |-> "0"]

C33_Witness ==
    /\ test.name = "single_node" /\ pc = "returned" /\ Len(msgs) = 1
    /\ Has(ops, "stdin_write")
    /\ "wires" \notin DOMAIN test.node
    /\ test.flow[3]["wires"] = << <<"3">> >>

\* C34 as stated: run_edgelink_and_collect_msgs(num_msgs), with a child that
\* writes at least num_msgs frames of JSON, returns exactly num_msgs messages.
C34_StopsAfterNumMsgs ==
    (entry = "script" /\ pc = "returned" /\ Len(GoodValues(written)) >= nexpected) =>
        Len(msgs) = nexpected

\* C35 as stated: cross-unittest.py runs every listed test binary in order,
\* whatever the binaries return, and exits with 1 exactly when a binary
\* returned a nonzero code or the cargo output file is missing, with 0
\* otherwise.
C35_Listed == SelectSeq(tool.lines, IsTestEntry)
C35_Failed == \E k \in 1..Len(tool.ran) : tool.ran[k].returncode # 0
C35_RanInOrder ==
    /\ Len(tool.ran) <= Len(C35_Listed)
    /\ \A k \in 1..Len(tool.ran) : tool.ran[k].binary = C35_Listed[k].executable

C35_ExitCodeByResults ==
    (tool.name = "cross-unittest" /\ tool.pc = "exited") =>
        /\ tool.status \in {0, 1}
        /\ tool.status = 1 <=> (C35_Failed \/ ~tool.exists)
        /\ tool.exists => (C35_RanInOrder /\ Len(tool.ran) = Len(C35_Listed))

\* C35, amended: the same, with the exit by an exception that nothing catches
\* (a line of the file that is not JSON, qemu-arm that cannot be started) as a
\* third cause of status 1; only such an exception keeps listed binaries from
\* being run.
C35_ExitCodeByResultsOrException ==
    tool.name = "cross-unittest" =>
        /\ C35_RanInOrder
        /\ tool.pc = "exited" =>
              /\ tool.status \in {0, 1}
              /\ tool.status = 1 <=> (C35_Failed \/ ~tool.exists \/ tool.raised # "none")
              /\ (tool.exists /\ tool.raised = "none") => Len(tool.ran) = Len(C35_Listed)

C35_Witness ==
    /\ tool.name = "cross-unittest" /\ tool.pc = "exited"
    /\ tool.status = 1 /\ tool.raised = "none"
    /\ Len(tool.ran) = 2
    /\ tool.ran[1].returncode = 101 /\ tool.ran[2].returncode = 0

\* C36: specs_diff.py ends with a status the totals alone decide, 0 when the
\* Python total is at least the JS total and -1 otherwise, for every list of
\* pairs, the empty list and a JS total of zero included.
C36_StatusByTotals ==
    (tool.name = "specs_diff" /\ tool.pc = "exited") =>
        /\ tool.raised = "none"
        /\ tool.status = (IF tool.total_py_count >= tool.total_js_count THEN 0 ELSE -1)

====
